---- MODULE Spec2Model ----
(***************************************************************************)
(* Model of src/charging_station_model.py: one run of the script, from the *)
(* sidebar inputs through the calculations, the cash-flow loop, the        *)
(* financial metrics and the output section.                               *)
(*                                                                         *)
(* Number representation.  The script computes in binary64; the model      *)
(* computes in fixed point.  Inputs keep the script's units (Naira,        *)
(* percent, kWh).  Every derived amount of money is held in kobo           *)
(* (1/100 Naira), so that share/100, loan_pct/100 and capex * 0.15 are     *)
(* exact, and a quotient that is not a whole number of kobo is rounded     *)
(* toward minus infinity.  Unit costs per kWh derived from the energy mix  *)
(* are in kobo per kWh as well.                                            *)
(***************************************************************************)
EXTENDS Integers, Sequences, FiniteSets, TLC

\* ---- bounds of the model ------------------------------------------------
MaxYears == 3
MaxLoanTerm == 2

\* ---- widget ranges (values the sidebar can deliver) ----------------------
SessionsPerDayChoices == {10}
\* 1133750 is one year's net cash flow of an all-solar, loan-free station
\* (cumulative cash flow exactly 0 after year 1); 1737500 makes the cash
\* flows 17375 * [-100, 60, 60]
CapexChoices == {1000000, 1133750, 1737500}
OpexMonthlyChoices == {50000}
PricePerKwhChoices == {100, 200}
AvgKwhPerSessionChoices == {5}
SolarPercentChoices == {0, 40, 100}
DgPercentChoices(solar) == {d \in {0, 30, 100 - solar} : d >= 0 /\ d <= 100 - solar}
GridCostChoices == {10, 50}
DgCostChoices == {100}
SolarCostChoices == {5, 10}
CngCostChoices == {50}
AssetOwnershipChoices == {"Outright Purchase", "Lease"}
LoanPctChoices == {0, 50, 100}
LoanTermChoices == 1..MaxLoanTerm
InterestRateChoices == {0, 10}
YearsChoices == 1..MaxYears
DiscountRateChoices == {0, 10}

VARIABLES
    \* sidebar inputs
    sessions_per_day, capex, opex_monthly, price_per_kwh, avg_kwh_per_session,
    solar_percent, dg_percent, cng_percent,
    grid_cost_per_kwh, dg_cost_per_kwh, solar_cost_per_kwh, cng_cost_per_kwh,
    asset_ownership, loan_pct, loan_term, interest_rate, years, discount_rate,
    \* calculations
    sessions_per_year, revenue_per_year, avg_energy_cost_per_kwh,
    energy_cost_per_year, annual_loan_payment, annual_lease_payment,
    opex_yearly, costs_per_year, net_cash_flow,
    \* cash-flow list and loop counter
    cash_flows, year,
    \* financial metrics
    npv, irr, pi, cumulative_cf, pbp, breakeven_price_per_kwh,
    \* output section
    metric_irr, metric_pbp, metric_pi, chart_df,
    \* position in the script
    pc

inputs == <<sessions_per_day, capex, opex_monthly, price_per_kwh, avg_kwh_per_session,
            solar_percent, dg_percent, cng_percent,
            grid_cost_per_kwh, dg_cost_per_kwh, solar_cost_per_kwh, cng_cost_per_kwh,
            asset_ownership, loan_pct, loan_term, interest_rate, years, discount_rate>>
calcs == <<sessions_per_year, revenue_per_year, avg_energy_cost_per_kwh,
           energy_cost_per_year>>
financing == <<annual_loan_payment, annual_lease_payment>>
totals == <<opex_yearly, costs_per_year, net_cash_flow>>
loop == <<cash_flows, year>>
metrics == <<npv, irr, pi, cumulative_cf, pbp, breakeven_price_per_kwh>>
outputs == <<metric_irr, metric_pbp, metric_pi, chart_df>>
vars == <<inputs, calcs, financing, totals, loop, metrics, outputs, pc>>

\* ---- arithmetic helpers ---------------------------------------------------
RECURSIVE GCD(_, _)
GCD(a, b) == IF b = 0 THEN a ELSE GCD(b, a % b)

RECURSIVE Pow(_, _)
Pow(b, n) == IF n = 0 THEN 1 ELSE b * Pow(b, n - 1)

\* floor(x * a / b) for b > 0, without forming x * a
MulDiv(x, a, b) == (x \div b) * a + ((x % b) * a) \div b

Max0(x) == IF x > 0 THEN x ELSE 0

RECURSIVE Sum(_)
Sum(s) == IF s = <<>> THEN 0 ELSE s[1] + Sum(Tail(s))

\* ---- sidebar ---------------------------------------------------------------
CngPercentHalfOfRemainder(solar, dg) == (100 - solar - dg) \div 2

\* line 26
CngPercent(solar, dg) == 100 - solar - dg

\* ---- calculations (lines 44-68) -------------------------------------------
SessionsPerYear(spd) == spd * 365

\* kobo
RevenuePerYear(spy, kwh, price) == spy * kwh * price * 100

AvgEnergyCostCngAtDieselCost(solar, dg, cng, solar_cost, dg_cost, cng_cost, grid_cost) ==
    solar * solar_cost +
    dg * dg_cost +
    cng * dg_cost +
    Max0(100 - solar - dg - cng) * grid_cost

\* kobo per kWh: each share/100 times a cost in Naira is share * cost kobo
AvgEnergyCostPerKwh(solar, dg, cng, solar_cost, dg_cost, cng_cost, grid_cost) ==
    solar * solar_cost +
    dg * dg_cost +
    cng * cng_cost +
    Max0(100 - solar - dg - cng) * grid_cost

EnergyCostPerYear(spy, kwh, avg) == spy * kwh * avg

\* numpy_financial.pmt(rate, nper, pv) with fv = 0, payments at period end:
\*   rate = 0:  -pv / nper
\*   rate > 0:  -pv * rate * (1+rate)^nper / ((1+rate)^nper - 1)
\* rate is given in percent; (1+rate) = a/b in lowest terms.
pmt(rate, nper, pv) ==
    IF rate = 0 THEN (-pv) \div nper
    ELSE LET g == GCD(100 + rate, 100)
             a == (100 + rate) \div g
             b == 100 \div g
             num == rate * Pow(a, nper)
             den == 100 * (Pow(a, nper) - Pow(b, nper))
             h == GCD(num, den)
         IN  MulDiv(-pv, num \div h, den \div h)

\* line 58; kobo
LoanAmount(cpx, pct) == MulDiv(cpx * 100, pct, 100)

AnnualLeasePaymentTenPercent(cpx) == MulDiv(cpx * 100, 10, 100)

\* line 64; kobo
AnnualLeasePayment(cpx) == MulDiv(cpx * 100, 15, 100)

\* line 66; kobo
OpexYearly(opex_m) == opex_m * 12 * 100

CostsPerYear(opex_y, loan_payment, lease_payment, energy) ==
    opex_y + loan_payment + lease_payment + energy

NetCashFlow(revenue, costs) == revenue - costs

InitialCashFlowsPositive(cpx) == << cpx * 100 >>

\* line 71; kobo
InitialCashFlows(cpx) == << -(cpx * 100) >>

\* ---- initial state: the sidebar has delivered its values ------------------
Init ==
    /\ sessions_per_day \in SessionsPerDayChoices
    /\ capex \in CapexChoices
    /\ opex_monthly \in OpexMonthlyChoices
    /\ price_per_kwh \in PricePerKwhChoices
    /\ avg_kwh_per_session \in AvgKwhPerSessionChoices
    /\ solar_percent \in SolarPercentChoices
    /\ dg_percent \in DgPercentChoices(solar_percent)
    /\ cng_percent = CngPercent(solar_percent, dg_percent)
    /\ grid_cost_per_kwh \in GridCostChoices
    /\ dg_cost_per_kwh \in DgCostChoices
    /\ solar_cost_per_kwh \in SolarCostChoices
    /\ cng_cost_per_kwh \in CngCostChoices
    /\ asset_ownership \in AssetOwnershipChoices
    /\ loan_pct \in LoanPctChoices
    /\ loan_term \in LoanTermChoices
    /\ interest_rate \in InterestRateChoices
    /\ years \in YearsChoices
    /\ discount_rate \in DiscountRateChoices
    /\ sessions_per_year = 0 /\ revenue_per_year = 0
    /\ avg_energy_cost_per_kwh = 0 /\ energy_cost_per_year = 0
    /\ annual_loan_payment = 0 /\ annual_lease_payment = 0
    /\ opex_yearly = 0 /\ costs_per_year = 0 /\ net_cash_flow = 0
    /\ cash_flows = <<>> /\ year = 0
    /\ npv = 0 /\ irr = "unset" /\ pi = [nan |-> FALSE, val |-> 0]
    /\ cumulative_cf = <<>> /\ pbp = [type |-> "unset", val |-> 0]
    /\ breakeven_price_per_kwh = 0
    /\ metric_irr = "" /\ metric_pbp = [text |-> "", n |-> 0] /\ metric_pi = ""
    /\ chart_df = <<>>
    /\ pc = "calculations"

\* lines 44-54
Calculations ==
    /\ pc = "calculations"
    /\ sessions_per_year' = SessionsPerYear(sessions_per_day)
    /\ revenue_per_year' =
           RevenuePerYear(sessions_per_year', avg_kwh_per_session, price_per_kwh)
    /\ avg_energy_cost_per_kwh' =
           AvgEnergyCostPerKwh(solar_percent, dg_percent, cng_percent,
                               solar_cost_per_kwh, dg_cost_per_kwh,
                               cng_cost_per_kwh, grid_cost_per_kwh)
    /\ energy_cost_per_year' =
           EnergyCostPerYear(sessions_per_year', avg_kwh_per_session,
                             avg_energy_cost_per_kwh')
    /\ pc' = "financing"
    /\ UNCHANGED <<inputs, financing, totals, loop, metrics, outputs>>

\* lines 57-61
FinancingPurchase ==
    /\ pc = "financing"
    /\ asset_ownership = "Outright Purchase"
    /\ annual_loan_payment' = pmt(interest_rate, loan_term, -LoanAmount(capex, loan_pct))
    /\ annual_lease_payment' = 0
    /\ pc' = "totals"
    /\ UNCHANGED <<inputs, calcs, totals, loop, metrics, outputs>>

\* lines 62-64
FinancingLease ==
    /\ pc = "financing"
    /\ asset_ownership # "Outright Purchase"
    /\ annual_loan_payment' = 0
    /\ annual_lease_payment' = AnnualLeasePayment(capex)
    /\ pc' = "totals"
    /\ UNCHANGED <<inputs, calcs, totals, loop, metrics, outputs>>

\* lines 66-71
Totals ==
    /\ pc = "totals"
    /\ opex_yearly' = OpexYearly(opex_monthly)
    /\ costs_per_year' = CostsPerYear(opex_yearly', annual_loan_payment,
                                      annual_lease_payment, energy_cost_per_year)
    /\ net_cash_flow' = NetCashFlow(revenue_per_year, costs_per_year')
    /\ cash_flows' = InitialCashFlows(capex)
    /\ year' = 1
    /\ pc' = "loop"
    /\ UNCHANGED <<inputs, calcs, financing, metrics, outputs>>

CashDriftingByYear(net, yr) == net - yr

\* line 73: the cash appended for a projected year
Cash(net, yr) == net

\* lines 72-74, one iteration
AppendYear ==
    /\ pc = "loop"
    /\ year <= years
    /\ cash_flows' = Append(cash_flows, Cash(net_cash_flow, year))
    /\ year' = year + 1
    /\ UNCHANGED <<inputs, calcs, financing, totals, metrics, outputs, pc>>

\* ---- financial metrics (lines 77-85) --------------------------------------
\* x / (1 + rate/100)^t, rate in percent
RECURSIVE Discount(_, _, _)
Discount(x, rate, t) ==
    IF t = 0 THEN x ELSE Discount(MulDiv(x, 100, 100 + rate), rate, t - 1)

\* numpy_financial.npv(rate, values): sum of values[t] / (1+rate)^t, t from 0
NpvOf(rate, values) ==
    Sum([i \in 1..Len(values) |-> Discount(values[i], rate, i - 1)])

\* numpy_financial.irr(values): NaN when the values do not change sign;
\* otherwise the rate at which the net present value is 0, whose sign is the
\* sign of the undiscounted sum for one outflow followed by equal inflows.
\* When that sum is 0 the root is 0 and the floating-point solver may return
\* 0.0 or a value next to it.
IrrOutcomes(values) ==
    IF ~ ( (\E i \in 1..Len(values) : values[i] < 0)
           /\ (\E i \in 1..Len(values) : values[i] > 0) )
    THEN {"nan"}
    ELSE IF Sum(values) > 0 THEN {"positive"}
    ELSE IF Sum(values) < 0 THEN {"negative"}
    ELSE {"zero", "positive", "negative"}

\* line 79
PvOfInflows(rate, values) ==
    Sum([yr \in 1..(Len(values) - 1) |-> Discount(values[yr + 1], rate, yr)])

\* line 80; val is the index times 100, capex in Naira and pv in kobo
ProfitabilityIndex(pv, cpx) ==
    IF cpx # 0 THEN [nan |-> FALSE, val |-> pv \div cpx]
    ELSE [nan |-> TRUE, val |-> 0]

CumSumNoCarry(s) == s

\* line 81: numpy.cumsum
RECURSIVE CumSum(_)
CumSum(s) ==
    IF s = <<>> THEN <<>>
    ELSE LET front == CumSum(SubSeq(s, 1, Len(s) - 1))
         IN  Append(front, (IF front = <<>> THEN 0 ELSE front[Len(front)]) + s[Len(s)])

PbpNonNegative(cum) ==
    LET hits == {i \in 0..(Len(cum) - 1) : cum[i + 1] >= 0}
    IN  IF hits = {} THEN [type |-> "str", val |-> 0]
        ELSE [type |-> "int", val |-> CHOOSE i \in hits : \A j \in hits : i <= j]

\* line 82: enumerate() counts from 0; "Beyond projection" is the str case
Pbp(cum) ==
    LET hits == {i \in 0..(Len(cum) - 1) : cum[i + 1] > 0}
    IN  IF hits = {} THEN [type |-> "str", val |-> 0]
        ELSE [type |-> "int", val |-> CHOOSE i \in hits : \A j \in hits : i <= j]

\* line 85; kobo per kWh
BreakevenPricePerKwh(costs, spy, kwh) ==
    IF spy > 0 THEN costs \div (spy * kwh) ELSE 0

FinancialMetrics ==
    /\ pc = "loop"
    /\ year > years
    /\ npv' = NpvOf(discount_rate, cash_flows)
    /\ irr' \in IrrOutcomes(cash_flows)
    /\ pi' = ProfitabilityIndex(PvOfInflows(discount_rate, cash_flows), capex)
    /\ cumulative_cf' = CumSum(cash_flows)
    /\ pbp' = Pbp(cumulative_cf')
    /\ breakeven_price_per_kwh' =
           BreakevenPricePerKwh(costs_per_year, sessions_per_year, avg_kwh_per_session)
    /\ pc' = "output"
    /\ UNCHANGED <<inputs, calcs, financing, totals, loop, outputs>>

\* ---- output section (lines 88-116) ----------------------------------------
\* line 91: a float is falsy only when it equals 0; NaN is truthy and
\* formats as "nan"
MetricIrr(r) ==
    IF r = "zero" THEN "N/A"
    ELSE IF r = "nan" THEN "nan"
    ELSE "percent"

\* line 92
MetricPbp(p) ==
    IF p.type = "int" THEN [text |-> "years", n |-> p.val]
    ELSE [text |-> "Not achieved", n |-> 0]

\* line 93
MetricPi(p) == IF ~ p.nan THEN "index" ELSE "N/A"

\* lines 110-115
ChartDf(n, revenue, costs, net) ==
    [y \in 1..n |-> [Year |-> y, Revenue |-> revenue, Cost |-> costs,
                     NetCashFlow |-> net]]

Output ==
    /\ pc = "output"
    /\ metric_irr' = MetricIrr(irr)
    /\ metric_pbp' = MetricPbp(pbp)
    /\ metric_pi' = MetricPi(pi)
    /\ chart_df' = ChartDf(years, revenue_per_year, costs_per_year, net_cash_flow)
    /\ pc' = "done"
    /\ UNCHANGED <<inputs, calcs, financing, totals, loop, metrics>>

Next ==
    \/ Calculations
    \/ FinancingPurchase
    \/ FinancingLease
    \/ Totals
    \/ AppendYear
    \/ FinancialMetrics
    \/ Output

Spec == Init /\ [][Next]_vars

\* ---- the whole calculation as a function of the grid cost -----------------
\* lines 44-85 evaluated on the current inputs with grid_cost_per_kwh = g
RunWithGrid(g) ==
    LET spy == SessionsPerYear(sessions_per_day)
        revenue == RevenuePerYear(spy, avg_kwh_per_session, price_per_kwh)
        avg == AvgEnergyCostPerKwh(solar_percent, dg_percent, cng_percent,
                                   solar_cost_per_kwh, dg_cost_per_kwh,
                                   cng_cost_per_kwh, g)
        energy == EnergyCostPerYear(spy, avg_kwh_per_session, avg)
        loan == IF asset_ownership = "Outright Purchase"
                THEN pmt(interest_rate, loan_term, -LoanAmount(capex, loan_pct))
                ELSE 0
        lease == IF asset_ownership = "Outright Purchase"
                 THEN 0 ELSE AnnualLeasePayment(capex)
        costs == CostsPerYear(OpexYearly(opex_monthly), loan, lease, energy)
        net == NetCashFlow(revenue, costs)
        cfs == InitialCashFlows(capex) \o [y \in 1..years |-> Cash(net, y)]
    IN  [ cash_flows |-> cfs,
          npv |-> NpvOf(discount_rate, cfs),
          irr |-> IrrOutcomes(cfs),
          pbp |-> Pbp(CumSum(cfs)),
          pi |-> ProfitabilityIndex(PvOfInflows(discount_rate, cfs), capex),
          breakeven |-> BreakevenPricePerKwh(costs, spy, avg_kwh_per_session) ]

\* ---- positions -------------------------------------------------------------
AfterCalculations == pc \in {"financing", "totals", "loop", "output", "done"}
AfterFinancing == pc \in {"totals", "loop", "output", "done"}
AfterTotals == pc \in {"loop", "output", "done"}
AfterMetrics == pc \in {"output", "done"}

\* ---- claims ----------------------------------------------------------------

\* C1: for every projected year y in 1..years the year's cost includes the
\* annual loan payment only when y <= loan_term; for y > loan_term the loan
\* payment contributes 0 to the year's cost and so to cash_flows[y].
C1_LoanPaidOnlyWithinTerm ==
    pc = "done" =>
        \A y \in 1..years :
            cash_flows[y + 1] =
                revenue_per_year
                - ( opex_yearly + energy_cost_per_year
                    + (IF y <= loan_term THEN annual_loan_payment ELSE 0)
                    + annual_lease_payment )

\* C2: when the cash-flow sequence has no sign change (all entries negative
\* or all positive) the IRR produced is the null marker and the metric shown
\* is "N/A", never NaN passed through as a number.
C2_NoSignChangeShowsNA ==
    ( /\ pc = "done"
      /\ \/ \A i \in 1..Len(cash_flows) : cash_flows[i] < 0
         \/ \A i \in 1..Len(cash_flows) : cash_flows[i] > 0 )
    => (irr # "nan" /\ metric_irr = "N/A")

\* C3: the payback period is the smallest year y >= 1 whose cumulative cash
\* flow is strictly positive, and the "beyond projection" marker (shown as
\* "Not achieved") when no cumulative value within the horizon is strictly
\* positive; a cumulative value of exactly 0 does not count; a sequence
\* proportional to [-100, 60, 60] gives payback 2.
C3_PaybackIsFirstStrictlyPositiveYear ==
    LET positive == {y \in 1..years : cumulative_cf[y + 1] > 0}
    IN  /\ AfterMetrics =>
            /\ positive = {} => pbp.type = "str"
            /\ positive # {} =>
                   /\ pbp.type = "int"
                   /\ pbp.val \in positive
                   /\ \A y \in positive : pbp.val <= y
            /\ ( /\ Len(cash_flows) = 3
                 /\ cash_flows[2] = cash_flows[3]
                 /\ cash_flows[2] > 0
                 /\ cash_flows[2] % 3 = 0
                 /\ cash_flows[1] = -5 * (cash_flows[2] \div 3) )
               => pbp = [type |-> "int", val |-> 2]
        /\ pc = "done" =>
            /\ positive = {} => metric_pbp.text = "Not achieved"
            /\ positive # {} =>
                   metric_pbp = [text |-> "years", n |-> pbp.val]

\* C3 witness: the cumulative cash flow is exactly 0 at year 1 and the
\* payback period reported is year 2.
C3_Witness ==
    /\ pc = "done"
    /\ years >= 2
    /\ cumulative_cf[2] = 0
    /\ cumulative_cf[3] > 0
    /\ metric_pbp = [text |-> "years", n |-> 2]

\* C5: cash_flows has exactly years + 1 entries, its first entry is -capex,
\* and the entry for each year i in 1..years is that year's revenue minus
\* that year's cost.
C5_CashFlowsShape ==
    /\ pc = "loop" => Len(cash_flows) = year /\ year <= years + 1
    /\ AfterTotals => cash_flows[1] = -(capex * 100)
    /\ AfterMetrics => Len(cash_flows) = years + 1
    /\ pc = "done" =>
           /\ Len(chart_df) = years
           /\ \A i \in 1..years :
                  cash_flows[i + 1] = chart_df[i].Revenue - chart_df[i].Cost

C5_Witness ==
    /\ pc = "done"
    /\ years = MaxYears
    /\ Len(cash_flows) = MaxYears + 1
    /\ cash_flows[1] = -(capex * 100)
    /\ cash_flows[MaxYears + 1] # 0

\* C6: with no growth and no inflation every projected year has the same
\* net cash flow, for every financing choice and every horizon.
C6_FlatNetCashFlow ==
    /\ AfterTotals =>
           \A i, j \in 2..Len(cash_flows) : cash_flows[i] = cash_flows[j]
    /\ pc = "done" =>
           \A i \in 1..years :
               /\ chart_df[i].NetCashFlow = chart_df[1].NetCashFlow
               /\ cash_flows[i + 1] = chart_df[i].NetCashFlow

\* C6 witness: a purchase whose loan term ends before the horizon, with a
\* loan payment actually due.
C6_Witness ==
    /\ pc = "done"
    /\ asset_ownership = "Outright Purchase"
    /\ annual_loan_payment > 0
    /\ loan_term < years
    /\ years >= 3
    /\ cash_flows[2] = cash_flows[4]

\* C7: the weighted energy unit cost is the sum over solar, diesel, CNG and
\* grid of share/100 times the source's unit cost, the grid share being
\* max(0, 100 - solar - dg - cng); with solar 100 and the others 0 it is the
\* solar cost; the yearly energy cost is sessions per year times kWh per
\* session times that unit cost.  (Unit cost in kobo: 100 times Naira.)
C7_WeightedEnergyCost ==
    AfterCalculations =>
        LET rest == 100 - solar_percent - dg_percent - cng_percent
            share == [ solar |-> solar_percent, dg |-> dg_percent,
                       cng |-> cng_percent,
                       grid |-> IF rest > 0 THEN rest ELSE 0 ]
            cost == [ solar |-> solar_cost_per_kwh, dg |-> dg_cost_per_kwh,
                      cng |-> cng_cost_per_kwh, grid |-> grid_cost_per_kwh ]
        IN  /\ avg_energy_cost_per_kwh =
                   share.solar * cost.solar + share.dg * cost.dg
                   + share.cng * cost.cng + share.grid * cost.grid
            /\ (solar_percent = 100 /\ dg_percent = 0 /\ cng_percent = 0)
                   => avg_energy_cost_per_kwh = 100 * solar_cost_per_kwh
            /\ energy_cost_per_year =
                   sessions_per_day * 365 * avg_kwh_per_session
                   * avg_energy_cost_per_kwh

C7_Witness ==
    /\ pc = "done"
    /\ solar_percent = 40 /\ dg_percent = 30 /\ cng_percent = 30
    /\ avg_energy_cost_per_kwh =
           40 * solar_cost_per_kwh + 30 * dg_cost_per_kwh + 30 * cng_cost_per_kwh
    /\ energy_cost_per_year > 0

\* C8: under Lease every projected year's cost includes a lease payment of
\* exactly 15% of capex and no loan payment, whatever the loan percentage,
\* loan term and interest rate; under Purchase the lease payment is 0.
\* (15% of capex Naira is 15 * capex kobo.)
C8_LeasePayment ==
    /\ AfterFinancing =>
           /\ asset_ownership = "Lease" =>
                  /\ annual_lease_payment = 15 * capex
                  /\ annual_loan_payment = 0
           /\ asset_ownership = "Outright Purchase" => annual_lease_payment = 0
    /\ (AfterTotals /\ asset_ownership = "Lease") =>
           /\ costs_per_year =
                  opex_yearly + energy_cost_per_year + 15 * capex
           /\ \A i \in 2..Len(cash_flows) :
                  cash_flows[i] =
                      revenue_per_year
                      - (opex_yearly + energy_cost_per_year + 15 * capex)

C8_Witness ==
    /\ pc = "done"
    /\ asset_ownership = "Lease"
    /\ loan_pct = 100 /\ interest_rate = 10 /\ loan_term < years
    /\ annual_lease_payment = 15 * capex
    /\ Len(cash_flows) = years + 1

\* C9: cumulative_cf has the length of cash_flows, starts with
\* cash_flows[0], and each later entry is the previous entry plus the cash
\* flow of that year.
C9_CumulativeIsRunningSum ==
    AfterMetrics =>
        /\ Len(cumulative_cf) = Len(cash_flows)
        /\ cumulative_cf[1] = cash_flows[1]
        /\ \A y \in 2..Len(cash_flows) :
               cumulative_cf[y] = cumulative_cf[y - 1] + cash_flows[y]

C9_Witness ==
    /\ pc = "done"
    /\ years >= 2
    /\ cash_flows[2] # 0
    /\ cumulative_cf[3] = cash_flows[1] + cash_flows[2] + cash_flows[3]

\* C10: the solar, diesel and CNG shares are each in 0..100 and sum to 100,
\* so the grid share is 0, and a run that differs only in the grid cost per
\* kWh produces the same cash flows, NPV, IRR, payback period,
\* profitability index and breakeven price.
C10_GridCostHasNoInfluence ==
    /\ solar_percent \in 0..100 /\ dg_percent \in 0..100 /\ cng_percent \in 0..100
    /\ solar_percent + dg_percent + cng_percent = 100
    /\ pc = "done" =>
           \A g \in GridCostChoices :
               LET other == RunWithGrid(g)
               IN  /\ other.cash_flows = cash_flows
                   /\ other.npv = npv
                   /\ irr \in other.irr
                   /\ other.irr = IrrOutcomes(cash_flows)
                   /\ other.pbp = pbp
                   /\ other.pi = pi
                   /\ other.breakeven = breakeven_price_per_kwh

\* C10 witness: a finished run at grid cost 50 with every share positive
\* whose results are those of the run at grid cost 10.
C10_Witness ==
    /\ pc = "done"
    /\ grid_cost_per_kwh = 50
    /\ solar_percent > 0 /\ dg_percent > 0 /\ cng_percent > 0
    /\ RunWithGrid(10).cash_flows = cash_flows
    /\ RunWithGrid(10).npv = npv
====
